---------------------------- MODULE Spec2Model ----------------------------
(***************************************************************************)
(* VolcengineImageModel (src/src/image/volcengine-image-model.ts).         *)
(*                                                                         *)
(* One adapter instance and one doGenerate call on it: the synchronous     *)
(* part of the call (warnings, request body, reference images, the POST),  *)
(* the await of postJsonToApi, and the mapping of the vendor response to   *)
(* the result.                                                             *)
(*                                                                         *)
(* JavaScript values are tagged tuples <<tag, payload>>, so that values of *)
(* different JavaScript types can sit in one object.  An object is a       *)
(* function from its own keys to values; a key that is not in the domain   *)
(* is a key the object does not have.                                      *)
(***************************************************************************)
EXTENDS Naturals, Sequences, FiniteSets

VARIABLES
    modelId,    \* this.modelId, set by the constructor
    pc,         \* "idle" | "awaiting" | "returned" | "thrown"
    args,       \* <<>> before the call, <<the argument object>> after
    warnings,   \* the local `warnings`
    posts,      \* the requests handed to postJsonToApi, in order
    response,   \* <<>>, or <<what postJsonToApi resolved with>>
    result,     \* <<>>, or <<the value the promise resolved with>>
    error       \* <<>>, or <<the error the promise rejected with>>

vars == <<modelId, pc, args, warnings, posts, response, result, error>>

-----------------------------------------------------------------------------
(* JavaScript values *)

Undefined == <<"undefined">>
Str(s) == <<"string", s>>
Num(n) == <<"number", n>>
Bool(b) == <<"boolean", b>>
Obj(o) == <<"object", o>>

\* x == null in JavaScript: null or undefined
IsNullish(x) == x = Undefined \/ x = <<"null">>

\* { ...a, ...b }: the keys of both, b's value where both have the key
Spread(a, b) ==
    [k \in (DOMAIN a) \cup (DOMAIN b) |-> IF k \in DOMAIN b THEN b[k] ELSE a[k]]

\* const { [key]: _, ...rest } = o
Omit(o, key) == [k \in (DOMAIN o) \ {key} |-> o[k]]

\* o[key] = value
Assign(o, key, value) ==
    [k \in (DOMAIN o) \cup {key} |-> IF k = key THEN value ELSE o[k]]

EmptyObject == [k \in {} |-> Undefined]

-----------------------------------------------------------------------------
(* btoa(String.fromCharCode(...bytes)): base64, standard alphabet, padded *)

Base64Alphabet ==
    << "A", "B", "C", "D", "E", "F", "G", "H", "I", "J", "K", "L", "M",
       "N", "O", "P", "Q", "R", "S", "T", "U", "V", "W", "X", "Y", "Z",
       "a", "b", "c", "d", "e", "f", "g", "h", "i", "j", "k", "l", "m",
       "n", "o", "p", "q", "r", "s", "t", "u", "v", "w", "x", "y", "z",
       "0", "1", "2", "3", "4", "5", "6", "7", "8", "9", "+", "/" >>

Sextet(n) == Base64Alphabet[n + 1]

RECURSIVE btoa(_)
btoa(bytes) ==
    IF Len(bytes) = 0 THEN ""
    ELSE IF Len(bytes) = 1 THEN
        Sextet(bytes[1] \div 4) \o Sextet((bytes[1] % 4) * 16) \o "=="
    ELSE IF Len(bytes) = 2 THEN
        Sextet(bytes[1] \div 4)
            \o Sextet((bytes[1] % 4) * 16 + bytes[2] \div 16)
            \o Sextet((bytes[2] % 16) * 4) \o "="
    ELSE
        Sextet(bytes[1] \div 4)
            \o Sextet((bytes[1] % 4) * 16 + bytes[2] \div 16)
            \o Sextet((bytes[2] % 16) * 4 + bytes[3] \div 64)
            \o Sextet(bytes[3] % 64)
            \o btoa(SubSeq(bytes, 4, Len(bytes)))

-----------------------------------------------------------------------------
(* Reference files (ImageModelV3File) *)

\* a Uint8Array short enough to be spread into an argument list
Bytes(b) == <<"Uint8Array", b>>

\* a Uint8Array with more elements than the engine accepts as arguments of
\* one call; its content is not enumerated
LongBytes == <<"Uint8Array beyond the argument limit">>

UrlFile(u) == [type |-> "url", url |-> u]
DataFile(m, d) == [type |-> "file", mediaType |-> m, data |-> d]

\* String.fromCharCode(...file.data) throws RangeError when the array has
\* more elements than a call can take arguments
SpreadThrows(data) == data[1] = LongBytes[1]

\* convertFileToDataUrl: <<"return", s>>, or <<"throw", e>>
convertFileToDataUrl(file) ==
    IF file.type = "url" THEN <<"return", file.url>>
    ELSE IF file.data[1] = "string" THEN
        <<"return", "data:" \o file.mediaType \o ";base64," \o file.data[2]>>
    ELSE IF SpreadThrows(file.data) THEN <<"throw", "RangeError">>
    ELSE <<"return",
           "data:" \o file.mediaType \o ";base64," \o btoa(file.data[2])>>

\* files.map(file => this.convertFileToDataUrl(file)): the first throw ends it
MapFiles(files) ==
    IF \E i \in 1..Len(files) : convertFileToDataUrl(files[i])[1] = "throw"
    THEN <<"throw", "RangeError">>
    ELSE <<"return", [i \in 1..Len(files) |-> convertFileToDataUrl(files[i])[2]]>>

-----------------------------------------------------------------------------
(* doGenerate, up to the await *)

UnsupportedWarning(f) == [type |-> "unsupported", feature |-> f]

\* the fields tested for truthiness instead of against null
BuildWarnings_Truthy(aspectRatio, seed) ==
    (IF ~IsNullish(aspectRatio) /\ aspectRatio # Str("")
     THEN <<UnsupportedWarning("aspectRatio")>> ELSE <<>>)
        \o (IF ~IsNullish(seed) /\ seed # Num(0)
            THEN <<UnsupportedWarning("seed")>> ELSE <<>>)

\* lines 55-70
BuildWarnings(aspectRatio, seed) ==
    (IF ~IsNullish(aspectRatio) THEN <<UnsupportedWarning("aspectRatio")>> ELSE <<>>)
        \o (IF ~IsNullish(seed) THEN <<UnsupportedWarning("seed")>> ELSE <<>>)

\* (providerOptions.volcengine as Record<string, unknown>) ?? {}
OptionBag(providerOptions) ==
    IF "volcengine" \in DOMAIN providerOptions
          /\ ~IsNullish(providerOptions["volcengine"])
    THEN providerOptions["volcengine"][2]
    ELSE EmptyObject

\* const { response_format: _, ...volcengineOptions } = ...
VolcengineOptions(providerOptions) ==
    Omit(OptionBag(providerOptions), "response_format")

DefaultSize == Str("2048x2048")

\* { model: this.modelId, prompt, size: size ?? '2048x2048' }
BaseFields(id, r) ==
    [k \in {"model", "prompt", "size"} |->
        CASE k = "model" -> Str(id)
          [] k = "prompt" -> r.prompt
          [] k = "size" -> IF IsNullish(r.size) THEN DefaultSize ELSE r.size]

ForcedFormat == [k \in {"response_format"} |-> Str("b64_json")]

\* the caller's options spread last and unstripped
BuildBody_OptionsLast(id, r) ==
    Spread(Spread(BaseFields(id, r), ForcedFormat), OptionBag(r.providerOptions))

\* the adapter's own fields spread over the caller's options
BuildBody_BaseWins(id, r) ==
    Spread(Spread(VolcengineOptions(r.providerOptions), BaseFields(id, r)),
           ForcedFormat)

\* the request's seed copied into the body
BuildBody_ForwardsSeed(id, r) ==
    Spread(Spread(IF IsNullish(r.seed) THEN BaseFields(id, r)
                  ELSE Assign(BaseFields(id, r), "seed", r.seed),
                  VolcengineOptions(r.providerOptions)),
           ForcedFormat)

\* lines 73-82: the body before the reference images
BuildBody(id, r) ==
    Spread(Spread(BaseFields(id, r), VolcengineOptions(r.providerOptions)),
           ForcedFormat)

\* the length test left out
HasFiles_AnyList(files) == ~IsNullish(files)

\* files && files.length > 0
HasFiles(files) == ~IsNullish(files) /\ Len(files[2]) > 0

\* the scalar case left out
WithImage_AlwaysList(body, imageUrls) == Assign(body, "image", Obj(imageUrls))

\* lines 88-92
WithImage(body, imageUrls) ==
    IF Len(imageUrls) = 1
    THEN Assign(body, "image", Str(imageUrls[1]))
    ELSE Assign(body, "image", Obj(imageUrls))

\* config.baseURL
BaseURL == "https://ark.cn-beijing.volces.com/api/v3"

\* the request postJsonToApi is called with
PostRequest(body) == [url |-> BaseURL \o "/images/generations", body |-> body]

doGenerate(r) ==
    /\ args' = <<r>>
    /\ warnings' = BuildWarnings(r.aspectRatio, r.seed)
    /\ LET body == BuildBody(modelId, r)
           urls == IF HasFiles(r.files) THEN MapFiles(r.files[2]) ELSE <<"return", <<>>>>
       IN  IF urls[1] = "throw"
           THEN /\ pc' = "thrown"
                /\ error' = <<urls[2]>>
                /\ posts' = posts
           ELSE /\ pc' = "awaiting"
                /\ error' = error
                /\ posts' = Append(posts,
                       PostRequest(IF HasFiles(r.files)
                                   THEN WithImage(body, urls[2]) ELSE body))
    /\ UNCHANGED <<modelId, response, result>>

-----------------------------------------------------------------------------
(* doGenerate, after the await *)

\* !x for a value that is undefined or a string
Falsy(x) == IsNullish(x) \/ x = Str("")

\* the callback of response.data.map throws on an item
ItemThrows(item) == Falsy(item.b64_json)

RECURSIVE PayloadsPresent(_)
PayloadsPresent(data) ==
    IF data = <<>> THEN <<>>
    ELSE (IF Falsy(Head(data).b64_json) THEN <<>> ELSE <<Head(data).b64_json[2]>>)
            \o PayloadsPresent(Tail(data))

\* an item without a payload skipped instead of failing the call
ExtractImages_Skips(data) == <<"return", PayloadsPresent(data)>>

\* lines 108-113: <<"return", images>>, or <<"throw", message>>
ExtractImages(data) ==
    IF \E i \in 1..Len(data) : ItemThrows(data[i])
    THEN <<"throw", "No base64 image data in response">>
    ELSE <<"return", [i \in 1..Len(data) |-> data[i].b64_json[2]]>>

\* the echoed id ignored
ResponseModelId_Configured(value, id) == id

\* response.model ?? this.modelId
ResponseModelId(value, id) ==
    IF IsNullish(value.model) THEN id ELSE value.model[2]

\* usage dropped when its output token count is 0
BuildUsage_Truthy(value) ==
    IF ~IsNullish(value.usage) /\ value.usage[2].output_tokens # 0
    THEN Obj([inputTokens |-> Undefined,
              outputTokens |-> value.usage[2].output_tokens,
              totalTokens |-> value.usage[2].total_tokens])
    ELSE Undefined

\* lines 123-129; response.usage is an object or undefined
BuildUsage(value) ==
    IF ~IsNullish(value.usage)
    THEN Obj([inputTokens |-> Undefined,
              outputTokens |-> value.usage[2].output_tokens,
              totalTokens |-> value.usage[2].total_tokens])
    ELSE Undefined

\* lines 115-130 (the timestamp, the clock's reading, is left out)
BuildResult(images, w, value, responseHeaders, id) ==
    [images |-> images,
     warnings |-> w,
     response |-> [modelId |-> ResponseModelId(value, id),
                   headers |-> responseHeaders],
     usage |-> BuildUsage(value)]

\* postJsonToApi resolved with { value: response, responseHeaders }
PostResolves(value, responseHeaders) ==
    /\ response' = <<[value |-> value, responseHeaders |-> responseHeaders]>>
    /\ LET images == ExtractImages(value.data)
       IN  IF images[1] = "throw"
           THEN /\ pc' = "thrown"
                /\ error' = <<images[2]>>
                /\ result' = result
           ELSE /\ pc' = "returned"
                /\ error' = error
                /\ result' = <<BuildResult(images[2], warnings, value,
                                           responseHeaders, modelId)>>
    /\ UNCHANGED <<modelId, args, warnings, posts>>

\* postJsonToApi rejected: the fetch failed or was aborted, the failed
\* response handler built an error from a non-2xx response, or the body did
\* not match volcengineImageResponseSchema.  Nothing catches it.
PostRejects(e) ==
    /\ pc' = "thrown"
    /\ error' = <<e>>
    /\ UNCHANGED <<modelId, args, warnings, posts, response, result>>

-----------------------------------------------------------------------------
(* The inputs: the constructor's model id, the call's arguments and what    *)
(* the transport answers                                                    *)

MaxOptions == 3     \* keys in providerOptions.volcengine
MaxFiles == 2       \* reference files of one call
MaxItems == 2       \* items of response.data

\* VolcengineImageModelId names two ids and admits any string
ModelIds == {"doubao-seedream-4-5-251128", "doubao-seedream-4-0-250828"}

SeqsUpTo(S, n) == UNION {[1..m -> S] : m \in 0..n}

Prompts == {Str("a cat"), Str("a dog")}
Sizes == {Undefined, Str("1024x1024")}
AspectRatios == {Undefined, Str("16:9")}
Seeds == {Undefined, Num(0)}

OptionKeys ==
    {"response_format", "image", "model", "prompt", "size", "seed",
     "aspectRatio", "watermark"}

OptionValues(k) ==
    CASE k = "response_format" -> {Str("url"), Str("b64_json")}
      [] k = "image" -> {Str("https://x/option.png")}
      [] k = "model" -> {Str("option-model")}
      [] k = "prompt" -> {Str("a bird")}
      [] k = "size" -> {Str("512x512")}
      [] k = "seed" -> {Num(42)}
      [] k = "aspectRatio" -> {Str("1:1")}
      [] k = "watermark" -> {Bool(FALSE)}

AllOptionValues == UNION {OptionValues(k) : k \in OptionKeys}

\* the objects providerOptions.volcengine can be, with at most n keys
OptionBags(n) ==
    UNION {{b \in [K -> AllOptionValues] : \A k \in K : b[k] \in OptionValues(k)} :
              K \in {K \in SUBSET OptionKeys : Cardinality(K) <= n}}

NoProviderOptions == EmptyObject
ProviderOptions(bag) == [k \in {"volcengine"} |-> Obj(bag)]

ProviderOptionsSet(n) ==
    {NoProviderOptions} \cup {ProviderOptions(b) : b \in OptionBags(n)}

ByteArrays == {<<>>, <<77>>, <<77, 97>>, <<77, 97, 110>>, <<255, 254, 253, 0>>}

Files ==
    {UrlFile("https://x/a.png"), DataFile("image/png", Str("iVBORw0KGgo=")),
     DataFile("image/png", LongBytes)}
        \cup {DataFile("image/jpeg", Bytes(b)) : b \in ByteArrays}

FileLists(n) == {Undefined} \cup {Obj(fs) : fs \in SeqsUpTo(Files, n)}

Args(prompts, sizes, ratios, seeds, options, files) ==
    [prompt : prompts, size : sizes, aspectRatio : ratios, seed : seeds,
     providerOptions : options, files : files]

\* every option bag, against no file, one file and the empty list
OptionRequests ==
    Args(Prompts, Sizes, AspectRatios, Seeds, ProviderOptionsSet(MaxOptions),
         {Undefined, Obj(<<>>), Obj(<<UrlFile("https://x/a.png")>>)})

\* every file list, against an option bag with and without an image key
FileRequests ==
    Args({Str("a cat")}, {Undefined}, {Undefined}, {Undefined},
         {NoProviderOptions, ProviderOptions([k \in {"image"} |-> Str("https://x/option.png")])},
         FileLists(MaxFiles))

Requests == OptionRequests \cup FileRequests

\* the unsupported fields, with and without a file that cannot be converted
PlainRequests ==
    Args({Str("a cat")}, {Undefined}, AspectRatios, Seeds, {NoProviderOptions},
         {Undefined, Obj(<<DataFile("image/png", LongBytes)>>)})

Payloads == {Undefined, Str(""), Str("AAAA"), Str("BBBB")}
Items == [b64_json : Payloads]
Usages == {Undefined, Obj([output_tokens |-> 0, total_tokens |-> 9]),
           Obj([output_tokens |-> 5, total_tokens |-> 9])}
EchoedModels == {Undefined, Str("echoed-id")}

\* the values volcengineImageResponseSchema lets through
Responses(n) == [model : EchoedModels, data : SeqsUpTo(Items, n), usage : Usages]

PlainResponses ==
    {[model |-> Str("echoed-id"), data |-> <<[b64_json |-> Str("AAAA")]>>,
      usage |-> Undefined],
     [model |-> Undefined, data |-> <<[b64_json |-> Undefined]>>,
      usage |-> Obj([output_tokens |-> 5, total_tokens |-> 9])]}

ResponseHeaders == {[k \in {"content-type"} |-> "application/json"]}

Rejections == {"fetch failed", "APICallError", "TypeValidationError"}

-----------------------------------------------------------------------------
Init ==
    /\ modelId \in ModelIds
    /\ pc = "idle"
    /\ args = <<>>
    /\ warnings = <<>>
    /\ posts = <<>>
    /\ response = <<>>
    /\ result = <<>>
    /\ error = <<>>

\* the caller calls doGenerate on the new adapter
Call(requests) ==
    /\ pc = "idle"
    /\ \E r \in requests : doGenerate(r)

\* the pending await ends, one way or the other
Resolve(responses) ==
    /\ pc = "awaiting"
    /\ \E value \in responses, h \in ResponseHeaders : PostResolves(value, h)

Reject ==
    /\ pc = "awaiting"
    /\ \E e \in Rejections : PostRejects(e)

\* every request, a few answers
Next == Call(Requests) \/ Resolve(PlainResponses) \/ Reject

Spec == Init /\ [][Next]_vars

\* a few requests, every answer
NextResponse == Call(PlainRequests) \/ Resolve(Responses(MaxItems)) \/ Reject

SpecResponse == Init /\ [][NextResponse]_vars

-----------------------------------------------------------------------------
(* What the claims are stated over *)

Request == args[1]

\* the object the caller gave as providerOptions.volcengine, {} when none
CallerOptions ==
    IF "volcengine" \in DOMAIN Request.providerOptions
    THEN Request.providerOptions["volcengine"][2]
    ELSE EmptyObject

Posted == Len(posts) > 0
Body == posts[1].body

NoFiles == Request.files = Undefined \/ Request.files = Obj(<<>>)

\* key k of the body comes from the caller's options when they have it,
\* and has the adapter's value otherwise
OptionOrElse(k, own) ==
    /\ k \in DOMAIN Body
    /\ Body[k] = IF k \in DOMAIN CallerOptions THEN CallerOptions[k] ELSE own

\* key k is in the body exactly when the caller's options have it, with
\* their value
OnlyFromOptions(k) ==
    /\ k \in DOMAIN Body <=> k \in DOMAIN CallerOptions
    /\ k \in DOMAIN Body => Body[k] = CallerOptions[k]

-----------------------------------------------------------------------------
\* C1: whatever providerOptions.volcengine holds (a response_format of any
\* value, or no bag at all), every body handed to the transport has
\* response_format "b64_json".
C1_ResponseFormatForced ==
    \A i \in 1..Len(posts) :
        /\ "response_format" \in DOMAIN posts[i].body
        /\ posts[i].body["response_format"] = Str("b64_json")

C1_Witness ==
    /\ Posted
    /\ "response_format" \in DOMAIN CallerOptions
    /\ CallerOptions["response_format"] = Str("url")
    /\ Body["response_format"] = Str("b64_json")

\* C2, as claimed: with no reference file, and whatever the option bag
\* holds, the body has no image field.
C2_NoImageWithoutFiles ==
    (Posted /\ NoFiles) => "image" \notin DOMAIN Body

\* C2, amended: with no reference file, the body has an image field exactly
\* when the option bag has an image key, and then it is the bag's value.
C2_ImageOnlyFromOptions ==
    (Posted /\ NoFiles) => OnlyFromOptions("image")

C2_Witness ==
    /\ Posted
    /\ Request.files = Obj(<<>>)
    /\ "image" \in DOMAIN CallerOptions
    /\ Body["image"] = Str("https://x/option.png")

\* C3, as claimed: whatever the option bag holds, the body's model is the
\* configured model id, its prompt the request's prompt, and its size the
\* request's size, or "2048x2048" when the request has none.
C3_BaseFieldsFromRequest ==
    Posted =>
        /\ Body["model"] = Str(modelId)
        /\ Body["prompt"] = Request.prompt
        /\ Body["size"] = IF Request.size = Undefined THEN Str("2048x2048")
                          ELSE Request.size

\* C3, amended: each of model, prompt and size is the option bag's value
\* when the bag has that key; otherwise model is the configured model id,
\* prompt the request's prompt, and size the request's size, or "2048x2048"
\* when the request has none.
C3_BaseFieldsUnlessOption ==
    Posted =>
        /\ OptionOrElse("model", Str(modelId))
        /\ OptionOrElse("prompt", Request.prompt)
        /\ OptionOrElse("size", IF Request.size = Undefined THEN Str("2048x2048")
                                ELSE Request.size)

C3_Witness ==
    /\ Posted
    /\ Request.size = Undefined
    /\ DOMAIN CallerOptions \cap {"model", "prompt", "size"} = {"model"}
    /\ Body["size"] = Str("2048x2048")
    /\ Body["prompt"] = Request.prompt
    /\ Body["model"] = Str("option-model")

\* C4, as claimed: whatever the option bag holds, a request with aspectRatio
\* set puts no aspectRatio field in the body, and a request with seed set
\* puts no seed field in the body.
C4_UnsupportedNeverInBody ==
    Posted =>
        /\ Request.aspectRatio # Undefined => "aspectRatio" \notin DOMAIN Body
        /\ Request.seed # Undefined => "seed" \notin DOMAIN Body

\* C4, amended: the request's aspectRatio and seed are never copied into the
\* body: with aspectRatio set, the body has an aspectRatio field exactly when
\* the option bag has an aspectRatio key, and then it is the bag's value;
\* with seed set, the same for seed.
C4_UnsupportedOnlyFromOptions ==
    Posted =>
        /\ Request.aspectRatio # Undefined => OnlyFromOptions("aspectRatio")
        /\ Request.seed # Undefined => OnlyFromOptions("seed")

C4_Witness ==
    /\ Posted
    /\ Request.aspectRatio = Str("16:9")
    /\ Request.seed = Num(0)
    /\ "aspectRatio" \notin DOMAIN Body
    /\ "seed" \in DOMAIN Body
    /\ Body["seed"] = Num(42)

\* the base64 text of each byte array of ByteArrays (RFC 4648)
ExpectedBase64(b) ==
    CASE b = <<>> -> ""
      [] b = <<77>> -> "TQ=="
      [] b = <<77, 97>> -> "TWE="
      [] b = <<77, 97, 110>> -> "TWFu"
      [] b = <<255, 254, 253, 0>> -> "//79AA=="

ExpectedUrl(file) ==
    IF file.type = "url" THEN file.url
    ELSE "data:" \o file.mediaType \o ";base64,"
            \o (IF file.data[1] = "string" THEN file.data[2]
                ELSE ExpectedBase64(file.data[2]))

GivenFiles == Request.files[2]

\* C7: with a non-empty list of reference files, and whatever the option bag
\* holds, the body's image is, for one file, its converted string (a url
\* unchanged, inline data as data:<mediaType>;base64,<data>), and for two or
\* more files the list of converted strings, as long as the input and in its
\* order.
C7_ImageFromFiles ==
    (Posted /\ Request.files # Undefined /\ Request.files # Obj(<<>>)) =>
        /\ "image" \in DOMAIN Body
        /\ Body["image"] =
              IF Len(GivenFiles) = 1 THEN Str(ExpectedUrl(GivenFiles[1]))
              ELSE Obj([i \in 1..Len(GivenFiles) |-> ExpectedUrl(GivenFiles[i])])

C7_Witness ==
    /\ Posted
    /\ Request.files =
          Obj(<<DataFile("image/jpeg", Bytes(<<77, 97>>)), UrlFile("https://x/a.png")>>)
    /\ "image" \in DOMAIN CallerOptions
    /\ Body["image"] = Obj(<<"data:image/jpeg;base64,TWE=", "https://x/a.png">>)

-----------------------------------------------------------------------------
Settled == pc \in {"returned", "thrown"}
Returned == pc = "returned"
Result == result[1]
Answer == response[1].value

\* C8: every call of doGenerate makes exactly one network call, a POST to
\* <baseURL>/images/generations, whatever its outcome; after a failure there
\* is no second call and the error, not a result, reaches the caller.
C8_OneCallPerInvocation ==
    Settled =>
        /\ Len(posts) = 1
        /\ posts[1].url = BaseURL \o "/images/generations"
        /\ pc = "thrown" => (result = <<>> /\ error # <<>>)

\* C5: a returned result's warnings are the unsupported/aspectRatio entry
\* exactly when the request's aspectRatio is present, then the
\* unsupported/seed entry exactly when its seed is present (seed 0
\* included), and nothing else; and a call fails only for a cause that is
\* neither of these fields: a file that cannot be converted, a rejected
\* POST, or a response item without a payload.
C5_WarningsForUnsupported ==
    /\ Returned =>
          Result.warnings =
              (IF Request.aspectRatio # Undefined
               THEN <<[type |-> "unsupported", feature |-> "aspectRatio"]>> ELSE <<>>)
              \o (IF Request.seed # Undefined
                  THEN <<[type |-> "unsupported", feature |-> "seed"]>> ELSE <<>>)
    /\ pc = "thrown" =>
          \/ /\ posts = <<>>
             /\ \E i \in 1..Len(GivenFiles) :
                   GivenFiles[i] = DataFile(GivenFiles[i].mediaType, LongBytes)
          \/ Posted /\ response = <<>> /\ error[1] \in Rejections
          \/ /\ response # <<>>
             /\ \E i \in 1..Len(Answer.data) :
                   Answer.data[i].b64_json \in {Undefined, Str("")}

C5_Witness ==
    /\ Returned
    /\ Request.aspectRatio = Str("16:9")
    /\ Request.seed = Num(0)
    /\ Result.warnings = <<[type |-> "unsupported", feature |-> "aspectRatio"],
                           [type |-> "unsupported", feature |-> "seed"]>>

\* an item has no base64 payload: b64_json is absent or the empty string
NoPayload(item) == item.b64_json = Undefined \/ item.b64_json = Str("")

\* C6: once postJsonToApi has resolved with a schema-valid response: if any
\* item has no base64 payload the call fails and returns no result; otherwise
\* it returns a result whose images are the items' payloads, one per item,
\* in the response's order.
C6_AllImagesOrNone ==
    response # <<>> =>
        IF \E i \in 1..Len(Answer.data) : NoPayload(Answer.data[i])
        THEN pc = "thrown" /\ result = <<>>
        ELSE /\ Returned
             /\ Result.images =
                   [i \in 1..Len(Answer.data) |-> Answer.data[i].b64_json[2]]

C6_Witness ==
    /\ response # <<>>
    /\ Answer.data = <<[b64_json |-> Str("AAAA")], [b64_json |-> Undefined]>>
    /\ pc = "thrown"
    /\ result = <<>>

\* C9: a returned result has a usage exactly when the response had one; then
\* inputTokens is undefined, outputTokens the response's output_tokens and
\* totalTokens its total_tokens, a count of 0 included.
C9_UsageCopied ==
    Returned =>
        /\ Result.usage = Undefined <=> Answer.usage = Undefined
        /\ Answer.usage # Undefined =>
              /\ Result.usage[2].inputTokens = Undefined
              /\ Result.usage[2].outputTokens = Answer.usage[2].output_tokens
              /\ Result.usage[2].totalTokens = Answer.usage[2].total_tokens

C9_Witness ==
    /\ Returned
    /\ Answer.usage = Obj([output_tokens |-> 0, total_tokens |-> 9])
    /\ Result.usage =
          Obj([inputTokens |-> Undefined, outputTokens |-> 0, totalTokens |-> 9])

\* C10: a returned result's response.modelId is the model the response
\* echoed when it has a model field, and the configured model id when it has
\* none.
C10_ModelIdEchoedOrConfigured ==
    Returned =>
        Result.response.modelId =
            IF Answer.model = Undefined THEN modelId ELSE Answer.model[2]

C10_Witness ==
    /\ Returned
    /\ Answer.model = Str("echoed-id")
    /\ Result.response.modelId = "echoed-id"

=============================================================================
